---- MODULE Spec2Model ----
(***************************************************************************)
(* Model of elsoul/child-process (src/mod.ts): the argument tokenizer      *)
(* splitArgs, the two process invokers spawnSync and exec, the shared      *)
(* error normaliser handleError and the remote command composer sshCmd.    *)
(*                                                                         *)
(* A string is a sequence of one-character strings; a token list is a      *)
(* sequence of such strings.                                               *)
(***************************************************************************)
EXTENDS Integers, Sequences, FiniteSets, TLC

VARIABLES
    tcmd,      \* tokenizer run: the command string handed to splitArgs
    tpc,       \* tokenizer run: "input" before the call, "done" after it
    targv,     \* tokenizer run: [argsArray, firstCmd, args] of mod.ts:65-67
    calls,     \* one record per call of spawnSync, exec or sshCmd
    console    \* what console.error has written, oldest first

vars == <<tcmd, tpc, targv, calls, console>>

----------------------------------------------------------------------------
(* Bounds *)

MaxLen == 4        \* longest command string given to the tokenizer on its own
MaxField == 1      \* longest value of one sshCmd parameter
MaxOut == 2        \* most bytes a child writes to one captured stream
MaxExit == 2       \* ExitCodes holds 0..MaxExit and two large codes
NumCalls == 2      \* calls in flight together

----------------------------------------------------------------------------
(* Strings *)

SP == " "
DQ == "\""
SQ == "'"
BS == "\\"
TAB == "\t"
NL == "\n"
CR == "\r"

StringsOver(chars, n) == UNION {[1..k -> chars] : k \in 0..n}

\* JavaScript's undefined: argsArray[0] of an empty array, an omitted parameter.
Undefined == <<"undefined value">>

----------------------------------------------------------------------------
(* splitArgs, mod.ts:7-38 *)

ScanInit ==
    [args |-> <<>>, current |-> <<>>, inDoubleQuotes |-> FALSE,
     inSingleQuotes |-> FALSE, escaped |-> FALSE]

\* mod.ts:21 and mod.ts:23: the tests that make a quote character a toggle.
isDoubleQuoteToggle(st, c) == c = DQ /\ ~st.inSingleQuotes

isSingleQuoteToggleNever(st, c) == FALSE

isSingleQuoteToggle(st, c) == c = SQ /\ ~st.inDoubleQuotes

\* mod.ts:26-29: an unquoted space ends the current token, if there is one.
onSpacePushAlways(st) ==
    [st EXCEPT !.args = Append(@, st.current), !.current = <<>>]

onSpaceKeepCurrent(st) ==
    IF Len(st.current) > 0 THEN [st EXCEPT !.args = Append(@, st.current)] ELSE st

onSpace(st) ==
    IF Len(st.current) > 0
      THEN [st EXCEPT !.args = Append(@, st.current), !.current = <<>>]
      ELSE st

\* One iteration of the for loop, mod.ts:15-32.
scanChar(st, c) ==
    IF st.escaped
      THEN [st EXCEPT !.current = Append(@, c), !.escaped = FALSE]
    ELSE IF c = BS
      THEN [st EXCEPT !.escaped = TRUE]
    ELSE IF isDoubleQuoteToggle(st, c)
      THEN [st EXCEPT !.inDoubleQuotes = ~@]
    ELSE IF isSingleQuoteToggle(st, c)
      THEN [st EXCEPT !.inSingleQuotes = ~@]
    ELSE IF c = SP /\ ~st.inDoubleQuotes /\ ~st.inSingleQuotes
      THEN onSpace(st)
    ELSE [st EXCEPT !.current = Append(@, c)]

\* The for loop, mod.ts:14-33, over cmd[lo..hi]: scanChar on each character from
\* left to right.  The range is halved, and the first half's state is looked at
\* before the second half is scanned, only to keep the evaluation shallow.
RECURSIVE scanRange(_, _, _, _)
scanRange(st, cmd, lo, hi) ==
    IF lo > hi THEN st
    ELSE IF lo = hi THEN scanChar(st, cmd[lo])
    ELSE LET mid  == (lo + hi) \div 2
             left == scanRange(st, cmd, lo, mid)
         IN  IF left.escaped \in BOOLEAN
               THEN scanRange(left, cmd, mid + 1, hi)
               ELSE left

\* The push after the loop, mod.ts:34-37.
scanEndNoPush(st) == st.args

scanEnd(st) ==
    IF Len(st.current) > 0 THEN Append(st.args, st.current) ELSE st.args

splitArgs(cmd) == scanEnd(scanRange(ScanInit, cmd, 1, Len(cmd)))

\* mod.ts:66-67 (and 105-106): the executable and its arguments.
firstCmdOf(argsArray) == IF Len(argsArray) = 0 THEN Undefined ELSE argsArray[1]

sliceFrom1(argsArray) == IF Len(argsArray) = 0 THEN <<>> ELSE Tail(argsArray)

argvOf(cmd) ==
    LET argsArray == splitArgs(cmd)
    IN  [argsArray |-> argsArray,
         firstCmd  |-> firstCmdOf(argsArray),
         args      |-> sliceFrom1(argsArray)]

----------------------------------------------------------------------------
(* Result values and messages *)

ProcessCompleted ==
    <<"P", "r", "o", "c", "e", "s", "s", " ", "c", "o", "m", "p", "l", "e", "t", "e", "d">>

ProcessFailedWithCode ==
    <<"P", "r", "o", "c", "e", "s", "s", " ", "f", "a", "i", "l", "e", "d", " ",
      "w", "i", "t", "h", " ", "c", "o", "d", "e", " ">>

UnknownError ==
    <<"A", "n", " ", "u", "n", "k", "n", "o", "w", "n", " ", "e", "r", "r", "o", "r", " ",
      "o", "c", "c", "u", "r", "r", "e", "d">>

ExecResult(success, message) == [success |-> success, message |-> message]

NoResult == ExecResult(FALSE, <<>>)

\* Number to string, as the template literal of mod.ts:88 renders status.code.
DecimalDigits == <<"0", "1", "2", "3", "4", "5", "6", "7", "8", "9">>

RECURSIVE numberToString(_)
numberToString(n) ==
    IF n < 10 THEN <<DecimalDigits[n + 1]>>
    ELSE numberToString(n \div 10) \o <<DecimalDigits[(n % 10) + 1]>>

\* TextDecoder().decode on the bytes a child can write here (ASCII; any other
\* byte decodes to the replacement character).
decodeByte(b) ==
    CASE b = 104 -> "h"
      [] b = 32  -> SP
      [] b = 10  -> NL
      [] b = 9   -> TAB
      [] OTHER   -> "\\uFFFD"

decode(bytes) == [i \in 1..Len(bytes) |-> decodeByte(bytes[i])]

\* String.prototype.trim.
WhiteSpace == {SP, TAB, NL, CR}

RECURSIVE trimStart(_)
trimStart(s) ==
    IF s # <<>> /\ Head(s) \in WhiteSpace THEN trimStart(Tail(s)) ELSE s

RECURSIVE trimEnd(_)
trimEnd(s) ==
    IF s # <<>> /\ s[Len(s)] \in WhiteSpace
      THEN trimEnd(SubSeq(s, 1, Len(s) - 1)) ELSE s

trim(s) == trimEnd(trimStart(s))

----------------------------------------------------------------------------
(* handleError, mod.ts:139-152.  A thrown value is [isError, message]:       *)
(* isError says whether it is an instance of Error.                          *)

handleError(error) ==
    IF error.isError
      THEN ExecResult(FALSE, error.message)
      ELSE ExecResult(FALSE, UnknownError)

\* mod.ts:141: console.error(error), only on the instanceof branch.
handleErrorLog(error) == IF error.isError THEN <<error.message>> ELSE <<>>

\* The catch blocks, mod.ts:91-93 and 129-131: every thrown value is caught and the
\* call fulfils with handleError's result.
catchOnlyErrors(call, error) ==
    IF error.isError
      THEN [call EXCEPT !.pc = "fulfilled", !.result = handleError(error)]
      ELSE [call EXCEPT !.pc = "rejected"]

catchError(call, error) ==
    [call EXCEPT !.pc = "fulfilled", !.result = handleError(error)]

----------------------------------------------------------------------------
(* Completion of a child *)

\* mod.ts:80-90.
spawnSyncResultNoCode(status) ==
    IF status.success
      THEN ExecResult(TRUE, ProcessCompleted)
      ELSE ExecResult(FALSE, ProcessFailedWithCode \o numberToString(1))

spawnSyncResult(status) ==
    IF status.success
      THEN ExecResult(TRUE, ProcessCompleted)
      ELSE ExecResult(FALSE, ProcessFailedWithCode \o numberToString(status.code))

\* mod.ts:115-128.  log is what the block writes to console.error: nothing.
execOutcomeStdoutOnFailure(code, stdout, stderr) ==
    [result |-> ExecResult(code = 0, trim(decode(stdout))), log |-> <<>>]

execOutcomeWarnsStderr(code, stdout, stderr) ==
    IF code # 0
      THEN [result |-> ExecResult(FALSE, trim(decode(stderr))), log |-> <<>>]
      ELSE [result |-> ExecResult(TRUE, trim(decode(stdout))),
            log |-> IF stderr # <<>> THEN <<trim(decode(stderr))>> ELSE <<>>]

execOutcome(code, stdout, stderr) ==
    IF code # 0
      THEN [result |-> ExecResult(FALSE, trim(decode(stderr))), log |-> <<>>]
      ELSE [result |-> ExecResult(TRUE, trim(decode(stdout))), log |-> <<>>]

----------------------------------------------------------------------------
(* Calls *)

Calls == 1..NumCalls

IdleCall ==
    [pc |-> "idle", fn |-> "none", input |-> <<>>, file |-> Undefined, args |-> <<>>,
     stdio |-> "none", child |-> "none", success |-> FALSE, code |-> 0,
     stdout |-> <<>>, stderr |-> <<>>, result |-> NoResult]

NoError == [isError |-> FALSE, message |-> <<>>]
Throws(error) == [kind |-> "throws", error |-> error]
Spawns == [kind |-> "spawns", error |-> NoError]

\* What new Deno.Command(...).spawn() / .output() can do with an executable name:
\* throw (not found, permission denied, a bad argument) or start a child.  With
\* no executable name (undefined) no child is started.
ThrownValues ==
    {[isError |-> TRUE,  message |-> <<"N", "o", "t", "F", "o", "u", "n", "d">>],
     [isError |-> TRUE,  message |-> <<>>],
     [isError |-> FALSE, message |-> <<"x">>]}

HostOutcomes == {Throws(e) : e \in ThrownValues} \cup {Spawns}

hostAllows(file, outcome) == file = Undefined => outcome.kind = "throws"

\* await child.status (mod.ts:78) and await command.output() (mod.ts:113) resume
\* only once the child has exited.
statusReadyAlways(call) == TRUE

statusReady(call) == call.child = "exited"

\* mod.ts:64-78 and 103-113: tokenize, build the command, start the child.
startCall(c, fn, input, cmd, stdio, outcome) ==
    LET av   == argvOf(cmd)
        begun == [calls[c] EXCEPT !.fn = fn, !.input = input]
    IN  /\ calls[c].pc = "idle"
        /\ hostAllows(av.firstCmd, outcome)
        /\ IF outcome.kind = "throws"
             THEN /\ calls' = [calls EXCEPT ![c] = catchError(begun, outcome.error)]
                  /\ console' = console \o handleErrorLog(outcome.error)
             ELSE /\ calls' = [calls EXCEPT ![c] =
                                 [begun EXCEPT !.pc = "awaiting", !.file = av.firstCmd,
                                              !.args = av.args, !.stdio = stdio,
                                              !.child = "running"]]
                  /\ UNCHANGED console
        /\ UNCHANGED <<tcmd, tpc, targv>>

\* spawnSync(cmd), mod.ts:60-78: stdin, stdout and stderr are inherited.
SpawnSyncCall(c, cmd, outcome) ==
    startCall(c, "spawnSync", <<cmd>>, cmd, "inherit", outcome)

\* exec(cmd), mod.ts:102-113: stdout and stderr are captured.
ExecCall(c, cmd, outcome) ==
    startCall(c, "exec", <<cmd>>, cmd, "piped", outcome)

\* sshCmd, mod.ts:177-187.
SshHead == <<"s", "s", "h", " ", "-", "i", " ">>

SshOpts ==
    <<" ", "-", "o", " ", "S", "t", "r", "i", "c", "t", "H", "o", "s", "t", "K", "e", "y",
      "C", "h", "e", "c", "k", "i", "n", "g", "=", "n", "o", " ">>

SshAt == <<"@">>

SshPortCd == <<" ", "-", "p", " ", "2", "2", " ", "'", "c", "d", " ">>

SshProfile ==
    <<" ", "&", "&", " ", "s", "o", "u", "r", "c", "e", " ", "~", "/", ".", "p", "r", "o",
      "f", "i", "l", "e", " ", "&", "&", " ">>

SshTail == <<"'">>

DefaultCwd == <<"~">>

cwdOrDefault(cwd) == IF cwd = Undefined THEN DefaultCwd ELSE cwd

sshCommandNoQuotes(user, host, rsaKeyPath, execCmd, cwd) ==
    SshHead \o rsaKeyPath \o SshOpts \o user \o SshAt \o host
      \o <<" ", "-", "p", " ", "2", "2", " ", "c", "d", " ">> \o cwdOrDefault(cwd)
      \o SshProfile \o execCmd

sshCommand(user, host, rsaKeyPath, execCmd, cwd) ==
    SshHead \o rsaKeyPath \o SshOpts \o user \o SshAt \o host \o SshPortCd
      \o cwdOrDefault(cwd) \o SshProfile \o execCmd \o SshTail

SshCmdCall(c, user, host, rsaKeyPath, execCmd, cwd, outcome) ==
    startCall(c, "sshCmd", <<user, host, rsaKeyPath, execCmd, cwd>>,
              sshCommand(user, host, rsaKeyPath, execCmd, cwd), "inherit", outcome)

\* The child exits.  The host reports success exactly for exit code 0 (a child
\* ended by a signal has a non-zero code).  A child with inherited streams leaves
\* nothing captured.
ChildExit(c, code, out, err) ==
    /\ calls[c].child = "running"
    /\ calls[c].stdio = "inherit" => out = <<>> /\ err = <<>>
    /\ calls' = [calls EXCEPT ![c] =
                   [@ EXCEPT !.child = "exited", !.success = (code = 0), !.code = code,
                             !.stdout = out, !.stderr = err]]
    /\ UNCHANGED <<tcmd, tpc, targv, console>>

\* The continuation after the await, mod.ts:80-90 and 115-128.
Resume(c) ==
    LET cur == calls[c]
    IN  /\ cur.pc = "awaiting"
        /\ statusReady(cur)
        /\ IF cur.fn = "exec"
             THEN LET o == execOutcome(cur.code, cur.stdout, cur.stderr)
                  IN  /\ calls' = [calls EXCEPT ![c] =
                                     [cur EXCEPT !.pc = "fulfilled", !.result = o.result]]
                      /\ console' = console \o o.log
             ELSE /\ calls' = [calls EXCEPT ![c] =
                                 [cur EXCEPT !.pc = "fulfilled",
                                    !.result = spawnSyncResult(
                                        [success |-> cur.success, code |-> cur.code])]]
                  /\ UNCHANGED console
        /\ UNCHANGED <<tcmd, tpc, targv>>

----------------------------------------------------------------------------
(* The tokenizer on its own: every command string up to MaxLen characters. *)

TokChars == {"a", SP, TAB, NL, DQ, SQ, BS}

TokInputs == StringsOver(TokChars, MaxLen)

NoArgv == [argsArray |-> <<>>, firstCmd |-> Undefined, args |-> <<>>]

TokInit ==
    /\ tcmd \in TokInputs
    /\ tpc = "input"
    /\ targv = NoArgv
    /\ calls = [c \in Calls |-> IdleCall]
    /\ console = <<>>

Tokenize ==
    /\ tpc = "input"
    /\ targv' = argvOf(tcmd)
    /\ tpc' = "done"
    /\ UNCHANGED <<tcmd, calls, console>>

TokNext == Tokenize

SpecTok == TokInit /\ [][TokNext]_vars

----------------------------------------------------------------------------
(* One call of a public operation, from start to result. *)

ExitCodes == (0..MaxExit) \cup {10, 127, 255}

OutBytes == {104, 32, 10}

Captured == StringsOver(OutBytes, MaxOut)

Cmds ==
    {<<>>, <<SP>>, <<SP, SP>>, <<DQ, DQ>>, <<"x">>, <<"x", SP, "a">>,
     <<"n", "o", "-", "s", "u", "c", "h", "-", "c", "m", "d">>}

SshUsers == {<<"u">>, <<"u", DQ>>}
SshHosts == {<<"h">>, <<BS, "h">>}
SshKeys  == StringsOver({"k", SP}, MaxField)
SshCmdsRemote == StringsOver({"x", SP, SQ, DQ, BS}, MaxField)
SshCwds  == {Undefined, <<"d">>, <<"d", SP, "e">>, <<SQ, "d">>}

Init ==
    /\ tcmd = <<>>
    /\ tpc = "off"
    /\ targv = NoArgv
    /\ calls = [c \in Calls |-> IdleCall]
    /\ console = <<>>

\* The guards Idle and Running repeat the first conjunct of the action they precede.
Idle(c) == calls[c].pc = "idle"

Running(c) == calls[c].child = "running"

Next ==
    \/ /\ Idle(1)
       /\ \E cmd \in Cmds, o \in HostOutcomes : SpawnSyncCall(1, cmd, o)
    \/ /\ Idle(1)
       /\ \E cmd \in Cmds, o \in HostOutcomes : ExecCall(1, cmd, o)
    \/ /\ Idle(1)
       /\ \E user \in SshUsers, host \in SshHosts, key \in SshKeys,
             execCmd \in SshCmdsRemote, cwd \in SshCwds, o \in HostOutcomes :
               SshCmdCall(1, user, host, key, execCmd, cwd, o)
    \/ /\ Running(1)
       /\ \E code \in ExitCodes, out \in Captured, err \in Captured :
               ChildExit(1, code, out, err)
    \/ Resume(1)

Spec == Init /\ [][Next]_vars

----------------------------------------------------------------------------
(* Several calls in flight.  The event loop runs a continuation whose awaited *)
(* promise has settled, so Resume is weakly fair; nothing makes a child exit. *)

LiveCmds == {<<>>, <<"x">>}
LiveCodes == {0, 1}
LiveCaptured == {<<>>, <<104>>}

NextLive ==
    \E c \in Calls :
        \/ /\ Idle(c)
           /\ \E cmd \in LiveCmds, o \in HostOutcomes : SpawnSyncCall(c, cmd, o)
        \/ /\ Idle(c)
           /\ \E cmd \in LiveCmds, o \in HostOutcomes : ExecCall(c, cmd, o)
        \/ /\ Idle(c)
           /\ \E o \in HostOutcomes :
                   SshCmdCall(c, <<"u">>, <<"h">>, <<"k">>, <<"x">>, Undefined, o)
        \/ /\ Running(c)
           /\ \E code \in LiveCodes, out \in LiveCaptured, err \in LiveCaptured :
                   ChildExit(c, code, out, err)
        \/ Resume(c)

SpecLive == Init /\ [][NextLive]_vars /\ \A c \in Calls : WF_vars(Resume(c))

----------------------------------------------------------------------------
(* Vocabulary of the properties below, stated without the model's operators. *)

IsText(m) == \A i \in 1..Len(m) : m[i] \in STRING

WellFormed(r) ==
    /\ DOMAIN r = {"success", "message"}
    /\ r.success \in BOOLEAN
    /\ IsText(r.message)

IsPrefixOf(p, s) == Len(p) <= Len(s) /\ SubSeq(s, 1, Len(p)) = p

IsInfixOf(p, s) ==
    \E i \in 0..(Len(s) - Len(p)) : SubSeq(s, i + 1, i + Len(p)) = p

Blank(ch) == ch \in {" ", "\t", "\n", "\r"}

\* m is s without its leading and trailing blanks.
IsTrimOf(m, s) ==
    \E i \in 0..Len(s) : \E j \in 0..(Len(s) - i) :
        /\ m = SubSeq(s, i + 1, Len(s) - j)
        /\ \A k \in 1..i : Blank(s[k])
        /\ \A k \in (Len(s) - j + 1)..Len(s) : Blank(s[k])
        /\ m # <<>> => ~Blank(m[1]) /\ ~Blank(m[Len(m)])

DigitValue(ch) ==
    CASE ch = "0" -> 0 [] ch = "1" -> 1 [] ch = "2" -> 2 [] ch = "3" -> 3
      [] ch = "4" -> 4 [] ch = "5" -> 5 [] ch = "6" -> 6 [] ch = "7" -> 7
      [] ch = "8" -> 8 [] ch = "9" -> 9 [] OTHER -> -1

RECURSIVE DecimalValue(_)
DecimalValue(ds) ==
    IF ds = <<>> THEN 0
    ELSE 10 * DecimalValue(SubSeq(ds, 1, Len(ds) - 1)) + DigitValue(ds[Len(ds)])

\* ds is the decimal numeral of n: digits only, no leading zero, value n.
IsNumeralOf(ds, n) ==
    /\ ds # <<>>
    /\ \A i \in 1..Len(ds) : DigitValue(ds[i]) >= 0
    /\ Len(ds) > 1 => ds[1] # "0"
    /\ DecimalValue(ds) = n

\* r is what interactive mode reports for a child that exited with this code.
IsInteractiveResult(r, code) ==
    IF code = 0
      THEN r = [success |-> TRUE, message |-> ProcessCompleted]
      ELSE /\ r.success = FALSE
           /\ IsPrefixOf(ProcessFailedWithCode, r.message)
           /\ IsNumeralOf(SubSeq(r.message, Len(ProcessFailedWithCode) + 1,
                                 Len(r.message)), code)

\* r is what capturing mode reports for a child that exited with this code and
\* wrote these bytes.
IsCapturedResult(r, code, stdout, stderr) ==
    /\ r.success = (code = 0)
    /\ IsTrimOf(r.message, decode(IF code = 0 THEN stdout ELSE stderr))

Completed(c) == calls[c].pc = "fulfilled" /\ calls[c].child = "exited"

Has(s, ch) == \E i \in 1..Len(s) : s[i] = ch

TokensHave(ch) == \E k \in 1..Len(targv.argsArray) : Has(targv.argsArray[k], ch)

\* tokens joined with single spaces
RECURSIVE JoinWithSpaces(_)
JoinWithSpaces(tokens) ==
    IF tokens = <<>> THEN <<>>
    ELSE IF Len(tokens) = 1 THEN tokens[1]
    ELSE tokens[1] \o <<" ">> \o JoinWithSpaces(Tail(tokens))

----------------------------------------------------------------------------
(* C1 *)

\* C1: whatever the command string and whatever the host's spawn primitive does
\* (throws an Error, throws another value, starts a child that exits with any
\* code), a call of spawnSync, exec or sshCmd is never rejected: it is idle,
\* waiting for its child, or fulfilled with a value {success, message}.
C1_NeverRejects ==
    \A c \in Calls :
        /\ calls[c].pc \in {"idle", "awaiting", "fulfilled"}
        /\ calls[c].pc = "awaiting" => calls[c].child \in {"running", "exited"}
        /\ calls[c].pc = "fulfilled" => WellFormed(calls[c].result)

\* exec("") met a thrown value that is no Error and still returned a result.
C1_Witness ==
    /\ calls[1].pc = "fulfilled"
    /\ calls[1].fn = "exec"
    /\ calls[1].input = <<<<>>>>
    /\ calls[1].child = "none"
    /\ calls[1].result = [success |-> FALSE, message |-> UnknownError]

----------------------------------------------------------------------------
(* C2 *)

\* C2: once the child of an exec call has completed and the call has returned,
\* success is true exactly when the exit code is 0, and the message is the
\* trimmed captured stdout on code 0 and the trimmed captured stderr otherwise.
C2_ExecResult ==
    \A c \in Calls :
        Completed(c) /\ calls[c].fn = "exec" =>
            IsCapturedResult(calls[c].result, calls[c].code,
                             calls[c].stdout, calls[c].stderr)

\* A failing child wrote "\nh" to stderr and "hh" to stdout: the message is "h".
C2_Witness ==
    /\ Completed(1)
    /\ calls[1].fn = "exec"
    /\ calls[1].code = 127
    /\ calls[1].stderr = <<10, 104>>
    /\ calls[1].stdout = <<104, 104>>
    /\ calls[1].result = [success |-> FALSE, message |-> <<"h">>]

----------------------------------------------------------------------------
(* C3 *)

\* C3: once the child of a spawnSync call has exited and the call has returned,
\* the result is {true, "Process completed"} on exit code 0 and
\* {false, "Process failed with code N"} otherwise, N the numeral of the code.
C3_SpawnSyncResult ==
    \A c \in Calls :
        Completed(c) /\ calls[c].fn = "spawnSync" =>
            IsInteractiveResult(calls[c].result, calls[c].code)

\* A child that exited with code 127.
C3_Witness ==
    /\ Completed(1)
    /\ calls[1].fn = "spawnSync"
    /\ calls[1].code = 127
    /\ calls[1].result.message = ProcessFailedWithCode \o <<"1", "2", "7">>

----------------------------------------------------------------------------
(* C4 *)

SshCalled(c) == calls[c].fn = "sshCmd"

SshUser(c) == calls[c].input[1]
SshHost(c) == calls[c].input[2]
SshKey(c) == calls[c].input[3]
SshExecCmd(c) == calls[c].input[4]
SshCwd(c) == IF calls[c].input[5] = Undefined THEN <<"~">> ELSE calls[c].input[5]

\* The argument list the claim names.
SshExpectedArgs(c) ==
    << <<"-", "i">>,
       SshKey(c),
       <<"-", "o">>,
       <<"S", "t", "r", "i", "c", "t", "H", "o", "s", "t", "K", "e", "y",
         "C", "h", "e", "c", "k", "i", "n", "g", "=", "n", "o">>,
       SshUser(c) \o <<"@">> \o SshHost(c),
       <<"-", "p">>,
       <<"2", "2">>,
       <<"c", "d", " ">> \o SshCwd(c)
         \o <<" ", "&", "&", " ", "s", "o", "u", "r", "c", "e", " ", "~", "/", ".",
              "p", "r", "o", "f", "i", "l", "e", " ", "&", "&", " ">>
         \o SshExecCmd(c) >>

SshSpawnsAsClaimed(c) ==
    /\ calls[c].file = <<"s", "s", "h">>
    /\ calls[c].args = SshExpectedArgs(c)
    /\ calls[c].stdio = "inherit"

SshResultPassedThrough(c) ==
    Completed(c) => IsInteractiveResult(calls[c].result, calls[c].code)

\* Values that plain interpolation keeps whole.
IsBareWord(s) == s # <<>> /\ ~Has(s, " ") /\ ~Has(s, "\"") /\ ~Has(s, "'") /\ ~Has(s, "\\")
IsBarePart(s) == ~Has(s, " ") /\ ~Has(s, "\"") /\ ~Has(s, "'") /\ ~Has(s, "\\")
FitsSingleQuotes(s) == ~Has(s, "'") /\ ~Has(s, "\\")

----------------------------------------------------------------------------
(* C5 *)

\* C5 as claimed: an input with at least one character that is not whitespace
\* gives a non-empty token list, so the executable name is defined.
C5_Original ==
    (tpc = "done" /\ \E i \in 1..Len(tcmd) : ~Blank(tcmd[i])) =>
        targv.argsArray # <<>> /\ targv.firstCmd # Undefined

\* C5, amended: an input with at least one character that is neither a space, a
\* quote character nor a backslash gives a non-empty token list, and the
\* executable name is its first token.
C5_NonEmptyTokens ==
    (tpc = "done" /\ \E i \in 1..Len(tcmd) : tcmd[i] \notin {" ", "\"", "'", "\\"}) =>
        /\ targv.argsArray # <<>>
        /\ targv.firstCmd = targv.argsArray[1]
        /\ targv.firstCmd # Undefined
        /\ <<targv.firstCmd>> \o targv.args = targv.argsArray

C5_Witness ==
    /\ tpc = "done"
    /\ tcmd = <<"\"", "a", "\"", "\\">>
    /\ targv.argsArray = << <<"a">> >>
    /\ targv.firstCmd = <<"a">>

----------------------------------------------------------------------------
(* C6 *)

\* C6 as claimed: no token holds a double quote or a single quote.
C6_Original ==
    tpc = "done" => ~TokensHave("\"") /\ ~TokensHave("'")

\* C6, amended: a quote character reaches a token only escaped by a backslash
\* or inside quotes of the other kind: a token holds a double quote only if the
\* input holds a backslash or a single quote, and a single quote only if the
\* input holds a backslash or a double quote.
C6_QuotesStripped ==
    tpc = "done" =>
        /\ TokensHave("\"") => Has(tcmd, "\\") \/ Has(tcmd, "'")
        /\ TokensHave("'") => Has(tcmd, "\\") \/ Has(tcmd, "\"")

\* 'a ' grouped into one token, its quotes gone.
C6_Witness ==
    /\ tpc = "done"
    /\ tcmd = <<"'", "a", " ", "'">>
    /\ targv.argsArray = << <<"a", " ">> >>

----------------------------------------------------------------------------
(* C7 *)

\* C7 as claimed: an input of spaces, tabs and newlines only gives no token.
C7_Original ==
    (tpc = "done" /\ \A i \in 1..Len(tcmd) : tcmd[i] \in {" ", "\t", "\n"}) =>
        targv.argsArray = <<>>

\* C7, amended: the empty string and an input of space characters only give no
\* token (a tab or a newline is an ordinary token character).
C7_SpacesOnly ==
    (tpc = "done" /\ \A i \in 1..Len(tcmd) : tcmd[i] = " ") =>
        targv.argsArray = <<>> /\ targv.firstCmd = Undefined

C7_Witness ==
    /\ tpc = "done"
    /\ tcmd = <<" ", " ", " ">>
    /\ targv.argsArray = <<>>

----------------------------------------------------------------------------
(* C8 *)

SingleSpaced(s) == \A i \in 1..(Len(s) - 1) : ~(s[i] = " " /\ s[i + 1] = " ")

\* C8: for an input without quote characters, without backslashes and without
\* two spaces in a row, joining the tokens with single spaces and tokenizing
\* again gives the same tokens.
C8_Idempotent ==
    ( /\ tpc = "done"
      /\ ~Has(tcmd, "\"") /\ ~Has(tcmd, "'") /\ ~Has(tcmd, "\\")
      /\ SingleSpaced(tcmd) ) =>
        splitArgs(JoinWithSpaces(targv.argsArray)) = targv.argsArray

C8_Witness ==
    /\ tpc = "done"
    /\ tcmd = <<"a", " ", "a", "\t">>
    /\ targv.argsArray = << <<"a">>, <<"a", "\t">> >>
    /\ JoinWithSpaces(targv.argsArray) = tcmd

----------------------------------------------------------------------------
(* C9 *)

QuietSuccess(c) ==
    /\ Completed(c)
    /\ calls[c].fn = "exec"
    /\ calls[c].code = 0
    /\ calls[c].stderr # <<>>

\* C9 as claimed: after an exec call whose child exited with code 0 and wrote
\* to stderr, the diagnostic output holds that stderr text.
C9_Original ==
    \A c \in Calls :
        QuietSuccess(c) =>
            \E i \in 1..Len(console) : IsInfixOf(decode(calls[c].stderr), console[i])

\* C9, amended: after an exec call whose child exited with code 0 and wrote to
\* stderr, the result is the trimmed stdout and nothing was written to the
\* diagnostic output: console.error is written only for a thrown Error, with
\* that error.
C9_StderrDropped ==
    /\ \A c \in Calls :
          QuietSuccess(c) =>
              /\ calls[c].result.success
              /\ IsTrimOf(calls[c].result.message, decode(calls[c].stdout))
              /\ console = <<>>
    /\ console # <<>> =>
          /\ calls[1].child = "none"
          /\ calls[1].pc = "fulfilled"
          /\ console = <<calls[1].result.message>>

C9_Witness ==
    /\ QuietSuccess(1)
    /\ calls[1].stderr = <<104, 32>>
    /\ calls[1].stdout = <<>>
    /\ calls[1].result = [success |-> TRUE, message |-> <<>>]
    /\ console = <<>>

----------------------------------------------------------------------------
(* C10 *)

OwnResult(c) ==
    IF calls[c].fn = "exec"
      THEN IsCapturedResult(calls[c].result, calls[c].code,
                            calls[c].stdout, calls[c].stderr)
      ELSE IsInteractiveResult(calls[c].result, calls[c].code)

\* C10: a call that started a child is fulfilled only after that child has
\* exited, stays unfulfilled while the child runs, is eventually fulfilled once
\* the child has exited, and its result is decided by its own child's exit
\* alone, whatever the other calls in flight do.
C10_AwaitsOwnChild ==
    /\ [](\A c \in Calls :
            /\ calls[c].child = "running" => calls[c].pc = "awaiting"
            /\ (calls[c].pc = "fulfilled" /\ calls[c].child # "none") =>
                   calls[c].child = "exited" /\ OwnResult(c))
    /\ \A c \in Calls :
          (calls[c].child = "exited") ~> (calls[c].pc = "fulfilled")

\* The second call has returned its own child's failure while the first call,
\* started with the same command, still waits for a child that runs.
C10_Witness ==
    /\ calls[1].pc = "awaiting"
    /\ calls[1].child = "running"
    /\ calls[1].fn = "exec"
    /\ calls[2].fn = "exec"
    /\ calls[2].input = calls[1].input
    /\ Completed(2)
    /\ calls[2].code = 1
    /\ calls[2].result = [success |-> FALSE, message |-> <<"h">>]

====
